---- MODULE Spec2Model ----
(***************************************************************************)
(* Model of the jacuzzi temperature service: the ingestion handler         *)
(* TemperatureService.SubmitTemperature running inside a gorm transaction, *)
(* and the read-side queries, over a store of clients (hosts), sensors and *)
(* temperature readings.                                                   *)
(*                                                                         *)
(* Every gRPC request is served on its own goroutine, so several handlers  *)
(* run concurrently; each SQL statement of a handler is one step.  A       *)
(* transaction's writes are kept in a private overlay until COMMIT         *)
(* (read-committed isolation: a statement sees the committed store plus    *)
(* the transaction's own writes).                                          *)
(*                                                                         *)
(* The polling agent (runClient) is modelled on its own: each cycle scans, *)
(* filters, and submits one batch; the scan and the server's answer are    *)
(* inputs of the agent.                                                    *)
(*                                                                         *)
(* The sensor scanner (GetTemperatures) is modelled on its own as well:    *)
(* the files under /sys are its inputs.  The client service (ListClients,  *)
(* GetClient) reads the store the ingestion handler writes.                *)
(***************************************************************************)
EXTENDS Integers, Sequences, FiniteSets, TLC

(***************************************************************************)
(* Bounds                                                                  *)
(***************************************************************************)
\* at most this many readings in a submitted batch
MaxBatch == 2
\* at most this many SubmitTemperature requests in a behaviour
MaxReq == 2
\* at most this many readings submitted in a behaviour, over all requests
MaxReadings == 3

\* the goroutines serving SubmitTemperature requests
Procs == {1, 2}

(***************************************************************************)
(* Inputs: the wire readings a request may carry.  A reading is            *)
(* {sensorId, clientId, celsius, sensorType, sensorName, timestamp}.       *)
(* Timestamps are agent-side instants (all later than the zero time).      *)
(* The pool has a sensor of host h1 reported twice (with another type,     *)
(* name and time the second time), the same sensor id reported by host h2, *)
(* and a reading that carries no identifiers.                              *)
(***************************************************************************)
Reading(s, c, t, ty, n, ts) ==
    [sensorId |-> s, clientId |-> c, celsius |-> t, sensorType |-> ty,
     sensorName |-> n, timestamp |-> ts]

ReadingPool ==
    { Reading("hwmon0_1", "h1", 55, "CPU", "Package", 1),
      Reading("hwmon0_1", "h1", 61, "GPU", "edge", 2),
      Reading("hwmon0_1", "h2", 42, "CPU", "Package", 2),
      Reading("", "", 42, "CPU", "Package", 1) }

RECURSIVE SeqsUpTo(_, _)
SeqsUpTo(S, n) ==
    IF n = 0 THEN {<<>>}
    ELSE LET shorter == SeqsUpTo(S, n - 1)
         IN  shorter \cup {Append(q, x) : q \in {r \in shorter : Len(r) = n - 1}, x \in S}

Batches == SeqsUpTo(ReadingPool, MaxBatch)

(***************************************************************************)
(* State                                                                   *)
(***************************************************************************)
VARIABLES
    db,       \* the committed store: [hosts, sensors, readings]
    pc,       \* pc[p]: the statement handler p executes next
    h,        \* h[p]: handler p's locals (request, loop index, now, client, tx)
    clock,    \* the server's time.Now()
    log,      \* log[rid]: request rid as submitted and what it was answered:
              \* batch, status (pending, OK, InvalidArgument, Internal), opened
              \* (a transaction was opened), arrived (the server time at entry),
              \* erred (a statement of it returned an error)
    query,    \* the goroutine serving a query: position, request, the sensor
              \* ids and conditions of the stats loop, and the response
    agent,    \* the polling agent: its position, configuration, clock, the scan
              \* and the request of the running cycle, the cycles that called
              \* SubmitTemperature, each finished cycle's result, and the
              \* tick waiting in the ticker's channel
    monitor   \* the sensor scanner: its position in GetTemperatures, the
              \* directories and files its Globs returned, its loop indexes,
              \* what the latest loop turn read, the samples gathered, and
              \* what the scan returned

vars == <<db, pc, h, clock, log, query, agent, monitor>>

\* the zero value of time.Time (a field left out of a struct literal)
ZeroTime == 0

\* f overlaid with g: g's rows replace or extend f's
Overlay(f, g) ==
    [k \in (DOMAIN f) \cup (DOMAIN g) |-> IF k \in DOMAIN g THEN g[k] ELSE f[k]]

EmptyTx == [hosts |-> <<>>, sensors |-> <<>>, readings |-> <<>>]

EmptyDb == [hosts |-> <<>>, sensors |-> <<>>, readings |-> <<>>]

\* what the statements of p's transaction see
View(p) ==
    [hosts    |-> Overlay(db.hosts, h[p].tx.hosts),
     sensors  |-> Overlay(db.sensors, h[p].tx.sensors),
     readings |-> db.readings \o h[p].tx.readings]

\* rows some other open transaction has written and not yet committed
LockedHosts(p) ==
    UNION {DOMAIN h[q].tx.hosts : q \in {r \in Procs \ {p} : pc[r] # "idle"}}

LockedSensors(p) ==
    UNION {DOMAIN h[q].tx.sensors : q \in {r \in Procs \ {p} : pc[r] # "idle"}}

IdleLocals ==
    [rid |-> 0, batch |-> <<>>, idx |-> 0, now |-> ZeroTime,
     client |-> [ID |-> 0, FirstSeen |-> ZeroTime, LastSeen |-> ZeroTime],
     tx |-> EmptyTx]

\* a request field that is not set (req.StartTime == nil)
Nil == -1

NoRequest == [clientId |-> "", sensorId |-> "", start |-> Nil, end |-> Nil, limit |-> 0]

IdleQuery ==
    [pc |-> "idle", n |-> 0, kind |-> "none", req |-> NoRequest,
     ids |-> <<>>, i |-> 0, conds |-> {}, status |-> "none", out |-> <<>>]

\* the agent before runClient
IdleAgent ==
    [pc |-> "off", cfg |-> [ID |-> "", CPU |-> FALSE, GPU |-> FALSE, Disk |-> FALSE],
     clientID |-> "", clock |-> 1, cycle |-> 0, sensors |-> <<>>, calls |-> <<>>,
     req |-> <<>>, results |-> <<>>, ticks |-> 0]

\* the scanner before a call of GetTemperatures
IdleMonitor ==
    [pc |-> "idle", hwmonDirs |-> <<>>, i |-> 0, deviceName |-> <<>>,
     tempFiles |-> <<>>, j |-> 0, deviceSensors |-> <<>>, sensors |-> <<>>,
     thermalDirs |-> <<>>, z |-> 0, thermalSensors |-> <<>>,
     nameFile |-> [err |-> TRUE, data |-> <<>>],
     last |-> [dir |-> <<>>, base |-> <<>>,
               input |-> [err |-> TRUE, data |-> <<>>],
               label |-> [err |-> TRUE, data |-> <<>>]],
     used |-> 0, thermalErr |-> FALSE, err |-> FALSE, result |-> <<>>]

Init ==
    /\ db = EmptyDb
    /\ pc = [p \in Procs |-> "idle"]
    /\ h = [p \in Procs |-> IdleLocals]
    /\ clock = 1
    /\ log = <<>>
    /\ query = IdleQuery
    /\ agent = IdleAgent
    /\ monitor = IdleMonitor

(***************************************************************************)
(* SubmitTemperature                                                       *)
(***************************************************************************)
\* if len(req.Readings) == 0 { return InvalidArgument }
RejectEmptyNever(batch) == FALSE

RejectEmpty(batch) == Len(batch) = 0

\* the number of readings submitted so far
RECURSIVE SumLen(_, _)
SumLen(l, n) == IF n = 0 THEN 0 ELSE Len(l[n].batch) + SumLen(l, n - 1)

Submitted == SumLen(log, Len(log))

\* the handler is entered with a request; an empty one is answered at once,
\* otherwise s.db.Transaction opens a transaction and the loop starts.
\* (Goroutines are interchangeable: a request is served by the first free one.)
SubmitTemperature(p, batch) ==
    /\ pc[p] = "idle"
    /\ \A q \in Procs : q < p => pc[q] # "idle"
    /\ Len(log) < MaxReq
    /\ Submitted + Len(batch) <= MaxReadings
    /\ IF RejectEmpty(batch)
       THEN /\ log' = Append(log, [batch |-> batch, status |-> "InvalidArgument",
                                   opened |-> FALSE, arrived |-> clock,
                                   erred |-> FALSE])
            /\ UNCHANGED <<db, pc, h, clock, query, agent, monitor>>
       ELSE /\ log' = Append(log, [batch |-> batch, status |-> "pending",
                                   opened |-> TRUE, arrived |-> clock,
                                   erred |-> FALSE])
            /\ h' = [h EXCEPT ![p] = [IdleLocals EXCEPT !.rid = Len(log) + 1,
                                                        !.batch = batch,
                                                        !.idx = 1]]
            /\ pc' = [pc EXCEPT ![p] = IF Len(batch) = 0 THEN "commit"
                                       ELSE "client_first"]
            /\ UNCHANGED <<db, clock, query, agent, monitor>>

\* the reading the loop is at: for _, reading := range req.Readings
Cur(p) == h[p].batch[h[p].idx]

\* client := &models.Client{ClientID: ..., LastSeen: now, IsOnline: true}
\* as FirstOrCreate inserts it: FirstSeen is not set and stays the zero time
NewClientFirstSeenOnly(id, r, now) ==
    [ID |-> id, ClientID |-> r.clientId, FirstSeen |-> now,
     LastSeen |-> ZeroTime, IsOnline |-> TRUE]

NewClient(id, r, now) ==
    [ID |-> id, ClientID |-> r.clientId, FirstSeen |-> ZeroTime,
     LastSeen |-> now, IsOnline |-> TRUE]

\* tx.Model(client).Updates({"last_seen": now, "is_online": true})
Updates(row, now) == [row EXCEPT !.LastSeen = now, !.IsOnline = TRUE]

\* sensor := &models.Sensor{SensorID, ClientID, SensorType, SensorName}
NewSensor(r) ==
    [SensorID |-> r.sensorId, ClientID |-> r.clientId,
     SensorType |-> r.sensorType, SensorName |-> r.sensorName]

\* tempReading := &models.TemperatureReading{..., CreatedAt: reading.Timestamp.AsTime()}
\* (batch is bookkeeping: the request the row came from)
NewReadingServerTime(r, rid, now) ==
    [SensorID |-> r.sensorId, ClientID |-> r.clientId,
     TemperatureCelsius |-> r.celsius, SensorType |-> r.sensorType,
     SensorName |-> r.sensorName, CreatedAt |-> now, batch |-> rid]

NewReading(r, rid, now) ==
    [SensorID |-> r.sensorId, ClientID |-> r.clientId,
     TemperatureCelsius |-> r.celsius, SensorType |-> r.sensorType,
     SensorName |-> r.sensorName, CreatedAt |-> r.timestamp, batch |-> rid]

\* the primary key an INSERT into clients assigns (ID uint `gorm:"primaryKey"`):
\* never 0 and never used twice; here the number of the reading among all
\* readings of all requests
PrimaryKey(p) == MaxBatch * (h[p].rid - 1) + h[p].idx

\* now := time.Now(); tx.Where("client_id = ?", id).FirstOrCreate(client): the SELECT.
\* A row that is found is scanned into client; otherwise the INSERT follows.
ClientFirst(p) ==
    /\ pc[p] = "client_first"
    /\ LET r == Cur(p)
           v == View(p).hosts
       IN  IF r.clientId \in DOMAIN v
           THEN /\ h' = [h EXCEPT ![p].now = clock,
                                  ![p].client = [ID |-> v[r.clientId].ID,
                                                 FirstSeen |-> v[r.clientId].FirstSeen,
                                                 LastSeen |-> v[r.clientId].LastSeen]]
                /\ pc' = [pc EXCEPT ![p] = "client_after"]
           ELSE /\ h' = [h EXCEPT ![p].now = clock,
                                  ![p].client = [ID |-> 0, FirstSeen |-> ZeroTime,
                                                 LastSeen |-> clock]]
                /\ pc' = [pc EXCEPT ![p] = "client_create"]
    /\ clock' = clock + 1
    /\ UNCHANGED <<db, log, query, agent, monitor>>

\* FirstOrCreate(client): the INSERT, which sets client.ID to the new primary key.
\* The unique index on client_id makes it wait for an uncommitted row with the
\* same key and fail (PersistenceError) on a committed one.
ClientCreate(p) ==
    /\ pc[p] = "client_create"
    /\ LET r == Cur(p)
       IN  /\ r.clientId \notin DOMAIN View(p).hosts
           /\ r.clientId \notin LockedHosts(p)
           /\ h' = [h EXCEPT ![p].client.ID = PrimaryKey(p),
                             ![p].tx.hosts =
                                 Overlay(@, r.clientId :> NewClient(PrimaryKey(p), r, h[p].now))]
    /\ pc' = [pc EXCEPT ![p] = "client_after"]
    /\ UNCHANGED <<db, clock, log, query, agent, monitor>>

\* if client.ID != 0 { tx.Model(client).Updates(...) } else { client.FirstSeen = now }
\* The UPDATE takes the row's lock, so it waits for another transaction's
\* uncommitted write to the row.
ClientAfter(p) ==
    /\ pc[p] = "client_after"
    /\ LET r == Cur(p)
       IN  IF h[p].client.ID # 0
           THEN /\ r.clientId \notin LockedHosts(p)
                /\ r.clientId \in DOMAIN View(p).hosts
                /\ h' = [h EXCEPT ![p].tx.hosts =
                            Overlay(@, r.clientId :>
                                Updates(View(p).hosts[r.clientId], h[p].now))]
           ELSE h' = [h EXCEPT ![p].client.FirstSeen = h[p].now]
    /\ pc' = [pc EXCEPT ![p] = "sensor_first"]
    /\ UNCHANGED <<db, clock, log, query, agent, monitor>>

\* The same statement failing: the result of Updates is discarded (its Error is
\* not looked at), so the loop goes on with the row unchanged.
ClientAfterError(p) ==
    /\ pc[p] = "client_after"
    /\ h[p].client.ID # 0
    /\ pc' = [pc EXCEPT ![p] = "sensor_first"]
    /\ log' = [log EXCEPT ![h[p].rid].erred = TRUE]
    /\ UNCHANGED <<db, h, clock, query, agent, monitor>>

\* tx.Where("sensor_id = ?", id).FirstOrCreate(sensor): the SELECT
SensorFirst(p) ==
    /\ pc[p] = "sensor_first"
    /\ pc' = [pc EXCEPT ![p] = IF Cur(p).sensorId \in DOMAIN View(p).sensors
                               THEN "reading_create" ELSE "sensor_create"]
    /\ UNCHANGED <<db, h, clock, log, query, agent, monitor>>

\* FirstOrCreate(sensor): the INSERT (unique index on sensor_id)
SensorCreate(p) ==
    /\ pc[p] = "sensor_create"
    /\ LET r == Cur(p)
       IN  /\ r.sensorId \notin DOMAIN View(p).sensors
           /\ r.sensorId \notin LockedSensors(p)
           /\ h' = [h EXCEPT ![p].tx.sensors = Overlay(@, r.sensorId :> NewSensor(r))]
    /\ pc' = [pc EXCEPT ![p] = "reading_create"]
    /\ UNCHANGED <<db, clock, log, query, agent, monitor>>

\* tx.Create(tempReading), then the next reading or the end of the closure
ReadingCreate(p) ==
    /\ pc[p] = "reading_create"
    /\ h' = [h EXCEPT ![p].tx.readings = Append(@, NewReading(Cur(p), h[p].rid, h[p].now)),
                      ![p].idx = @ + 1]
    /\ pc' = [pc EXCEPT ![p] = IF h[p].idx < Len(h[p].batch) THEN "client_first"
                               ELSE "commit"]
    /\ UNCHANGED <<db, clock, log, query, agent, monitor>>

\* what COMMIT makes of the store
Committed(store, tx) ==
    [hosts    |-> Overlay(store.hosts, tx.hosts),
     sensors  |-> Overlay(store.sensors, tx.sensors),
     readings |-> store.readings \o tx.readings]

\* what ROLLBACK makes of the store
RollbackKeepsWrites(store, tx) == Committed(store, tx)

Rollback(store, tx) == store

\* the closure returned nil: COMMIT, and the handler answers Success
Commit(p) ==
    /\ pc[p] = "commit"
    /\ db' = Committed(db, h[p].tx)
    /\ log' = [log EXCEPT ![h[p].rid].status = "OK"]
    /\ pc' = [pc EXCEPT ![p] = "idle"]
    /\ h' = [h EXCEPT ![p] = IdleLocals]
    /\ UNCHANGED <<clock, query, agent, monitor>>

\* a statement whose error is returned (FirstOrCreate, Create, or COMMIT itself)
\* fails: return err, the transaction is rolled back, the handler answers Internal
ErrorPoints == {"client_first", "client_create", "sensor_first", "sensor_create",
                "reading_create", "commit"}

PersistenceError(p) ==
    /\ pc[p] \in ErrorPoints
    /\ db' = Rollback(db, h[p].tx)
    /\ log' = [log EXCEPT ![h[p].rid].status = "Internal", ![h[p].rid].erred = TRUE]
    /\ pc' = [pc EXCEPT ![p] = "idle"]
    /\ h' = [h EXCEPT ![p] = IdleLocals]
    /\ UNCHANGED <<clock, query, agent, monitor>>

\* the statements of handler p, one step each
Handler(p) ==
    \/ ClientFirst(p)
    \/ ClientCreate(p)
    \/ ClientAfter(p)
    \/ ClientAfterError(p)
    \/ SensorFirst(p)
    \/ SensorCreate(p)
    \/ ReadingCreate(p)
    \/ Commit(p)
    \/ PersistenceError(p)

\* One goroutine serving requests one after the other, every batch over the
\* pool allowed, every statement free to fail.
Next ==
    \/ \E b \in Batches : SubmitTemperature(1, b)
    \/ Handler(1)

Spec == Init /\ [][Next]_vars

(***************************************************************************)
(* Concurrent requests: two goroutines serve SubmitTemperature at the same *)
(* time, each in its own transaction.  No statement fails for a reason of  *)
(* its own; an INSERT fails when the unique index of its table rejects it. *)
(***************************************************************************)
\* the batches of two agents whose first hwmon channel has the same id
HostBatches2 ==
    { <<Reading("hwmon0_1", "h1", 55, "CPU", "Package", 1)>>,
      <<Reading("hwmon0_1", "h2", 42, "CPU", "Package", 2)>> }

\* FirstOrCreate's INSERT is rejected: since the SELECT found no row, another
\* transaction has committed a row with the same client_id (uniqueIndex of
\* Client.ClientID) or the same sensor_id (uniqueIndex of Sensor.SensorID).
\* FirstOrCreate returns the error, the closure returns it, the transaction
\* is rolled back and the handler answers Internal.
UniqueViolation(p) ==
    /\ \/ pc[p] = "client_create" /\ Cur(p).clientId \in DOMAIN View(p).hosts
       \/ pc[p] = "sensor_create" /\ Cur(p).sensorId \in DOMAIN View(p).sensors
    /\ db' = Rollback(db, h[p].tx)
    /\ log' = [log EXCEPT ![h[p].rid].status = "Internal", ![h[p].rid].erred = TRUE]
    /\ pc' = [pc EXCEPT ![p] = "idle"]
    /\ h' = [h EXCEPT ![p] = IdleLocals]
    /\ UNCHANGED <<clock, query, agent, monitor>>

NextC ==
    \E p \in Procs :
       \/ \E b \in HostBatches2 : SubmitTemperature(p, b)
       \/ ClientFirst(p)
       \/ ClientCreate(p)
       \/ ClientAfter(p)
       \/ SensorFirst(p)
       \/ SensorCreate(p)
       \/ ReadingCreate(p)
       \/ Commit(p)
       \/ UniqueViolation(p)

SpecC == Init /\ [][NextC]_vars
(***************************************************************************)
(* Queries: GetTemperatureHistory, GetCurrentTemperatures and              *)
(* GetTemperatureStats.  They run on s.db, outside any transaction: every  *)
(* SQL statement of a query reads the store as committed at that moment.   *)
(***************************************************************************)
\* at most this many queries in a behaviour
MaxQueries == 1

\* limit <= 0 || limit > 1000 -> limit = 100
LimitMax == 1000

LimitDefault == 100

\* the readings that host h1's agent reports: two sensors, two poll cycles
\* (all readings of a cycle share the cycle's timestamp)
HostReadings ==
    { Reading("hwmon0_1", "h1", 55, "CPU", "Package", 1),
      Reading("hwmon0_1", "h1", 61, "CPU", "Package", 2),
      Reading("hwmon0_2", "h1", 42, "CPU", "Core 0", 2) }

HostBatches == SeqsUpTo(HostReadings, MaxBatch)

\* requests: every field may be left unset ("" or nil)
HistoryRequests ==
    [clientId : {"", "h1"}, sensorId : {"", "hwmon0_1"}, start : {Nil, 2},
     end : {Nil, 2}, limit : {0, 1}]
    \cup { [NoRequest EXCEPT !.clientId = "h2"],
           [NoRequest EXCEPT !.end = 1],
           [NoRequest EXCEPT !.limit = LimitMax + 1] }

CurrentRequests ==
    [clientId : {"", "h1"}, sensorId : {""}, start : {Nil}, end : {Nil}, limit : {0}]

StatsRequests ==
    [clientId : {"", "h1"}, sensorId : {"", "hwmon0_1"}, start : {Nil, 2},
     end : {Nil}, limit : {0}]

\* protoReadings[i] = &temperaturev1.TemperatureReading{...}
ToProto(row) ==
    [sensorId |-> row.SensorID, clientId |-> row.ClientID,
     celsius |-> row.TemperatureCelsius, timestamp |-> row.CreatedAt,
     sensorType |-> row.SensorType, sensorName |-> row.SensorName]

\* if req.ClientId != "" { Where("client_id = ?") }
ClientMatches(row, req) == req.clientId = "" \/ row.ClientID = req.clientId

\* if req.SensorId != "" { Where("sensor_id = ?") }
SensorMatches(row, req) == req.sensorId = "" \/ row.SensorID = req.sensorId

InWindowExclusive(row, req) ==
    /\ req.start = Nil \/ row.CreatedAt > req.start
    /\ req.end = Nil \/ row.CreatedAt < req.end

\* if req.StartTime != nil { created_at >= ? }; if req.EndTime != nil { created_at <= ? }
InWindow(row, req) ==
    /\ req.start = Nil \/ row.CreatedAt >= req.start
    /\ req.end = Nil \/ row.CreatedAt <= req.end

HistoryLimit(req) ==
    IF req.limit <= 0 \/ req.limit > LimitMax THEN LimitDefault ELSE req.limit

\* the orders a statement may return the elements of S in (SQL promises none
\* beyond its ORDER BY)
Orders(S) ==
    LET n == Cardinality(S)
    IN  {s \in [1..n -> S] : \A j, k \in 1..n : j # k => s[j] # s[k]}

DescOrdersAny(rows, idx) == Orders(idx)

\* Order("created_at DESC")
DescOrders(rows, idx) ==
    {s \in Orders(idx) :
        \A j, k \in 1..Cardinality(idx) :
            j < k => rows[s[j]].CreatedAt >= rows[s[k]].CreatedAt}

\* the responses GetTemperatureHistory may give on the stored rows
HistoryResults(rows, req) ==
    LET idx == {i \in 1..Len(rows) : /\ ClientMatches(rows[i], req)
                                     /\ SensorMatches(rows[i], req)
                                     /\ InWindow(rows[i], req)}
        n   == IF Cardinality(idx) < HistoryLimit(req) THEN Cardinality(idx)
               ELSE HistoryLimit(req)
    IN  {[j \in 1..n |-> ToProto(rows[s[j]])] : s \in DescOrders(rows, idx)}

\* the responses GetCurrentTemperatures may give: the rows of the client joined
\* with (sensor_id, MAX(created_at)) of the client's rows grouped by sensor_id
CurrentResults(rows, req) ==
    LET mine   == {i \in 1..Len(rows) : rows[i].ClientID = req.clientId}
        latest == {i \in mine :
                      \A j \in mine : rows[j].SensorID = rows[i].SensorID
                                          => rows[j].CreatedAt <= rows[i].CreatedAt}
    IN  {[j \in 1..Cardinality(latest) |-> ToProto(rows[s[j]])] : s \in Orders(latest)}

\* baseQuery: the client and window conditions
BaseMatches(row, req) == ClientMatches(row, req) /\ InWindow(row, req)

\* sensorIds: the requested one, or baseQuery.Distinct("sensor_id").Pluck(...)
StatsIds(rows, req) ==
    IF req.sensorId # "" THEN {<<req.sensorId>>}
    ELSE Orders({rows[i].SensorID : i \in {j \in 1..Len(rows) : BaseMatches(rows[j], req)}})

\* the rows of query := baseQuery.Where("sensor_id = ?", sensorId).  The Where
\* is chained on baseQuery's own statement, so conds holds the sensor
\* conditions of this and of every earlier turn of the loop.
StatsRows(rows, req, conds) ==
    {i \in 1..Len(rows) : /\ BaseMatches(rows[i], req)
                          /\ \A s \in conds : rows[i].SensorID = s}

RECURSIVE SumOf(_, _)
SumOf(rows, idx) ==
    IF idx = {} THEN 0
    ELSE LET i == CHOOSE j \in idx : TRUE
         IN  rows[i].TemperatureCelsius + SumOf(rows, idx \ {i})

\* AVG, MIN, MAX, COUNT(*) scanned into stats (zero values when no row matches);
\* the average is kept as the pair <<sum, count>>
Aggregate(rows, idx) ==
    LET vals == {rows[i].TemperatureCelsius : i \in idx}
    IN  [MinTemperature |-> IF idx = {} THEN 0
                            ELSE CHOOSE v \in vals : \A w \in vals : v <= w,
         MaxTemperature |-> IF idx = {} THEN 0
                            ELSE CHOOSE v \in vals : \A w \in vals : v >= w,
         AvgTemperature |-> <<SumOf(rows, idx), Cardinality(idx)>>,
         ReadingCount   |-> Cardinality(idx)]

\* one turn of the loop over sensorIds on the rows given
StatsTurn(rows, st) ==
    LET id    == st.ids[st.i]
        conds == st.conds \cup {id}
    IN  [st EXCEPT !.conds = conds,
                   !.out = Overlay(@, id :> Aggregate(rows, StatsRows(rows, st.req, conds))),
                   !.i = @ + 1]

\* the whole loop run on one and the same rows
RECURSIVE StatsLoop(_, _)
StatsLoop(rows, st) ==
    IF st.i > Len(st.ids) THEN st.out ELSE StatsLoop(rows, StatsTurn(rows, st))

\* the responses GetTemperatureStats gives when all its statements read the
\* same rows
StatsResults(rows, req) ==
    {StatsLoop(rows, [req |-> req, ids |-> ids, i |-> 1, conds |-> {}, out |-> <<>>]) :
        ids \in StatsIds(rows, req)}

Answer(kind, req, out) ==
    [pc |-> "idle", n |-> query.n + 1, kind |-> kind, req |-> req, ids |-> <<>>,
     i |-> 0, conds |-> {}, status |-> "OK", out |-> out]

GetTemperatureHistory(req) ==
    /\ query.pc = "idle"
    /\ query.n < MaxQueries
    /\ \/ \E out \in HistoryResults(db.readings, req) :
             query' = Answer("history", req, out)
       \/ query' = [Answer("history", req, <<>>) EXCEPT !.status = "Internal"]
    /\ UNCHANGED <<db, pc, h, clock, log, agent, monitor>>

GetCurrentTemperatures(req) ==
    /\ query.pc = "idle"
    /\ query.n < MaxQueries
    /\ IF req.clientId = ""
       THEN query' = [Answer("current", req, <<>>) EXCEPT !.status = "InvalidArgument"]
       ELSE \/ \E out \in CurrentResults(db.readings, req) :
                  query' = Answer("current", req, out)
            \/ query' = [Answer("current", req, <<>>) EXCEPT !.status = "Internal"]
    /\ UNCHANGED <<db, pc, h, clock, log, agent, monitor>>

\* entry of GetTemperatureStats up to the loop: sensorIds is fixed here
GetTemperatureStats(req) ==
    /\ query.pc = "idle"
    /\ query.n < MaxQueries
    /\ \/ \E ids \in StatsIds(db.readings, req) :
             query' = IF ids = <<>> THEN Answer("stats", req, <<>>)
                      ELSE [Answer("stats", req, <<>>) EXCEPT !.pc = "stats_loop",
                                                               !.ids = ids, !.i = 1,
                                                               !.status = "pending"]
       \/ /\ req.sensorId = ""
          /\ query' = [Answer("stats", req, <<>>) EXCEPT !.status = "Internal"]
    /\ UNCHANGED <<db, pc, h, clock, log, agent, monitor>>

\* one turn of the loop: its statement reads the store as it is now; after the
\* last turn the response is returned
StatsScan ==
    /\ query.pc = "stats_loop"
    /\ LET st == StatsTurn(db.readings, query)
       IN  query' = IF st.i > Len(st.ids)
                    THEN [st EXCEPT !.pc = "idle", !.status = "OK"]
                    ELSE st
    /\ UNCHANGED <<db, pc, h, clock, log, agent, monitor>>

\* the statement of a turn fails: the handler answers Internal
StatsError ==
    /\ query.pc = "stats_loop"
    /\ query' = [query EXCEPT !.pc = "idle", !.status = "Internal", !.out = <<>>]
    /\ UNCHANGED <<db, pc, h, clock, log, agent, monitor>>

\* One goroutine serving the batches of an agent, another serving a query.
NextQ ==
    \/ \E b \in HostBatches : SubmitTemperature(1, b)
    \/ Handler(1)
    \/ \E r \in HistoryRequests : GetTemperatureHistory(r)
    \/ \E r \in CurrentRequests : GetCurrentTemperatures(r)
    \/ \E r \in StatsRequests : GetTemperatureStats(r)
    \/ StatsScan
    \/ StatsError

SpecQ == Init /\ [][NextQ]_vars

(***************************************************************************)
(* The client service: ListClients and GetClient.  They run on s.db,       *)
(* outside any transaction, one SQL statement a step, while a goroutine    *)
(* serves the batches of two agents and the server's time passes.          *)
(***************************************************************************)
\* the server's time.Now() does not go beyond this
MaxClock == 8

\* 5*time.Minute; the server's clock counts minutes
OnlineWindow == 5

PageMax == 1000

PageDefault == 100

\* the client ids of the agents, in the order of ORDER BY client_id
ClientIdOrder == <<"", "h1", "h2">>

ListRequests ==
    [onlineOnly : BOOLEAN, limit : {0, 1}, offset : {0, 1}]

GetClientRequests == [clientId : {"", "h1", "h2"}]

\* a minute passes on the server; a request is served within the minute
TimePasses ==
    /\ clock < MaxClock
    /\ pc[1] = "idle" /\ query.pc = "idle"
    /\ clock' = clock + 1
    /\ UNCHANGED <<db, pc, h, log, query, agent, monitor>>

\* isOnline := time.Since(client.LastSeen) < 5*time.Minute
IsOnline(client, now) == now - client.LastSeen < OnlineWindow

\* modelToProtoClient, called at the server time now
modelToProtoClient(client, now) ==
    [id |-> client.ClientID, firstSeen |-> client.FirstSeen,
     lastSeen |-> client.LastSeen, isOnline |-> IsOnline(client, now)]

\* query.Where("is_online = ?", true) when req.OnlineOnly
ListMatches(client, req) == req.onlineOnly => client.IsOnline

\* limit <= 0 || limit > 1000 gives 100
ListLimit(req) ==
    IF req.limit <= 0 \/ req.limit > PageMax THEN PageDefault ELSE req.limit

\* query.Order("client_id").Limit(limit).Offset(offset).Find(&clients)
ListRows(hosts, req) ==
    LET ids  == SelectSeq(ClientIdOrder,
                          LAMBDA id : id \in DOMAIN hosts /\ ListMatches(hosts[id], req))
        last == IF req.offset + ListLimit(req) < Len(ids)
                THEN req.offset + ListLimit(req) ELSE Len(ids)
    IN  [k \in 1..(IF last > req.offset THEN last - req.offset ELSE 0) |->
            hosts[ids[req.offset + k]]]

\* ListClients up to query.Count(&totalCount)
ListClients(req) ==
    /\ query.pc = "idle"
    /\ query.n < MaxQueries
    /\ \/ query' = [Answer("list", req, <<>>) EXCEPT
                      !.pc = "list_find", !.status = "pending",
                      !.i = Cardinality({id \in DOMAIN db.hosts :
                                            ListMatches(db.hosts[id], req)})]
       \/ query' = [Answer("list", req, <<>>) EXCEPT !.status = "Internal"]
    /\ UNCHANGED <<db, pc, h, clock, log, agent, monitor>>

\* the Find of ListClients, the conversion of each row, and the response
ListFind ==
    /\ query.pc = "list_find"
    /\ LET rows == ListRows(db.hosts, query.req)
       IN  query' = [query EXCEPT
                       !.pc = "idle", !.status = "OK", !.i = 0,
                       !.out = [clients |-> [k \in 1..Len(rows) |->
                                                modelToProtoClient(rows[k], clock)],
                                totalCount |-> query.i]]
    /\ UNCHANGED <<db, pc, h, clock, log, agent, monitor>>

\* s.db.Where("client_id = ?", req.ClientId).Find(&sensors), in the order of
\* the rows' insertion
SensorsOfClient(store, clientId) ==
    LET firsts == SelectSeq([k \in 1..Len(store.readings) |-> k],
                     LAMBDA k : \A l \in 1..(k - 1) :
                        store.readings[l].SensorID # store.readings[k].SensorID)
        ids    == [k \in 1..Len(firsts) |-> store.readings[firsts[k]].SensorID]
    IN  SelectSeq(ids, LAMBDA id : /\ id \in DOMAIN store.sensors
                                   /\ store.sensors[id].ClientID = clientId)

\* s.db.Where("sensor_id = ?", sensor.SensorID).Order("created_at DESC").First:
\* the row of the sensor id with the greatest created_at (First adds the
\* primary key as the last ordering term); no row when there is none
LatestReading(readings, sensor) ==
    LET rows == {k \in 1..Len(readings) : readings[k].SensorID = sensor.SensorID}
    IN  {k \in rows : \A l \in rows :
            \/ readings[l].CreatedAt < readings[k].CreatedAt
            \/ readings[l].CreatedAt = readings[k].CreatedAt /\ k <= l}

\* sensorInfo, whose temperature and time stay unset when the statement gave
\* no row or an error
SensorInfo(sensor, readings, found) ==
    [sensorId |-> sensor.SensorID, sensorType |-> sensor.SensorType,
     sensorName |-> sensor.SensorName,
     currentTemperature |-> IF found = {} THEN 0
                            ELSE readings[CHOOSE k \in found : TRUE].TemperatureCelsius,
     lastReading |-> IF found = {} THEN Nil
                     ELSE readings[CHOOSE k \in found : TRUE].CreatedAt]

\* GetClient up to the conversion of the client row
GetClient(req) ==
    /\ query.pc = "idle"
    /\ query.n < MaxQueries
    /\ \/ query' =
            IF req.clientId = ""
            THEN [Answer("client", req, <<>>) EXCEPT !.status = "InvalidArgument"]
            ELSE IF req.clientId \notin DOMAIN db.hosts
            THEN [Answer("client", req, <<>>) EXCEPT !.status = "NotFound"]
            ELSE [Answer("client", req,
                         [client |-> modelToProtoClient(db.hosts[req.clientId], clock),
                          sensors |-> <<>>])
                  EXCEPT !.pc = "client_sensors", !.status = "pending"]
       \/ /\ req.clientId # ""
          /\ query' = [Answer("client", req, <<>>) EXCEPT !.status = "Internal"]
    /\ UNCHANGED <<db, pc, h, clock, log, agent, monitor>>

\* the Find of the client's sensors
GetClientSensors ==
    /\ query.pc = "client_sensors"
    /\ LET ids == SensorsOfClient(db, query.req.clientId)
       IN  query' = IF ids = <<>>
                    THEN [query EXCEPT !.pc = "idle", !.status = "OK"]
                    ELSE [query EXCEPT !.pc = "client_loop", !.ids = ids, !.i = 1]
    /\ UNCHANGED <<db, pc, h, clock, log, agent, monitor>>

\* one turn of the loop over the sensors: the latest reading, which may fail;
\* after the last turn the response is returned
GetClientReading(failed) ==
    /\ query.pc = "client_loop"
    /\ LET id     == query.ids[query.i]
           sensor == IF id \in DOMAIN db.sensors THEN db.sensors[id]
                     ELSE [SensorID |-> id, ClientID |-> query.req.clientId,
                           SensorType |-> "", SensorName |-> ""]
           found  == IF failed THEN {} ELSE LatestReading(db.readings, sensor)
           info   == SensorInfo(sensor, db.readings, found)
           last   == query.i = Len(query.ids)
       IN  query' = [query EXCEPT
                       !.out.sensors = Append(@, info),
                       !.i = IF last THEN 0 ELSE @ + 1,
                       !.ids = IF last THEN <<>> ELSE @,
                       !.pc = IF last THEN "idle" ELSE "client_loop",
                       !.status = IF last THEN "OK" ELSE "pending"]
    /\ UNCHANGED <<db, pc, h, clock, log, agent, monitor>>

\* the Find of ListClients or of GetClient fails: the handler answers Internal
ClientServiceError ==
    /\ query.pc \in {"list_find", "client_sensors"}
    /\ query' = [query EXCEPT !.pc = "idle", !.status = "Internal", !.out = <<>>,
                              !.i = 0]
    /\ UNCHANGED <<db, pc, h, clock, log, agent, monitor>>

\* One goroutine serving the batches of two agents one after the other,
\* another serving a query of the client service, and time passing.
NextL ==
    \/ \E b \in HostBatches2 : SubmitTemperature(1, b)
    \/ Handler(1)
    \/ TimePasses
    \/ \E r \in ListRequests : ListClients(r)
    \/ ListFind
    \/ \E r \in GetClientRequests : GetClient(r)
    \/ GetClientSensors
    \/ \E failed \in BOOLEAN : GetClientReading(failed)
    \/ ClientServiceError

SpecL == Init /\ [][NextL]_vars

(***************************************************************************)
(* The polling agent: runClient and collectAndSendTemperatures.  The       *)
(* monitor's scan and the server's answer are its inputs.                  *)
(***************************************************************************)
\* at most this many poll cycles in a behaviour
MaxCycles == 2

\* at most this many samples in a scan
MaxScan == 2

\* the interfaces, channels and thermal zones one scan enumerates
MaxEntries == 4

\* os.Hostname()
Hostname == "h1"

TemperatureSensor(id, type, name, milliC) ==
    [ID |-> id, Type |-> type, Name |-> name, TempMilliC |-> milliC]

\* samples a scan may yield, one of each type
SensorPool ==
    { TemperatureSensor("hwmon0_1", "CPU", "Package id 0", 55000),
      TemperatureSensor("hwmon1_1", "GPU", "edge", 61500),
      TemperatureSensor("hwmon2_1", "DISK", "Composite", 38000),
      TemperatureSensor("hwmon3_1", "OTHER", "temp1", 42000) }

\* what monitor.GetTemperatures() may return
ScanOutcomes ==
    {[err |-> TRUE, sensors |-> <<>>]}
    \cup {[err |-> FALSE, sensors |-> ss] : ss \in SeqsUpTo(SensorPool, MaxScan)}

\* what client.SubmitTemperature may return: a response with Success set or
\* not, or an error
SubmitOutcomes == {"success", "failure", "error"}

\* the configurations config.Load() may return
Configs == [ID : {"", "h2"}, CPU : BOOLEAN, GPU : BOOLEAN, Disk : BOOLEAN]

\* float64(t.TempMilliC) / 1000.0, kept as the fraction
TempCelsius(sensor) == <<sensor.TempMilliC, 1000>>

IncludeEnabledOnly(sensor, cfg) ==
    \/ sensor.Type = "CPU" /\ cfg.CPU
    \/ sensor.Type = "GPU" /\ cfg.GPU
    \/ sensor.Type = "DISK" /\ cfg.Disk

\* the switch on sensor.Type
Include(sensor, cfg) ==
    CASE sensor.Type = "CPU"  -> cfg.CPU
      [] sensor.Type = "GPU"  -> cfg.GPU
      [] sensor.Type = "DISK" -> cfg.Disk
      [] OTHER                -> TRUE

\* the loop that appends the included sensors to filteredSensors, from i on
RECURSIVE FilterSensors(_, _, _)
FilterSensors(sensors, cfg, i) ==
    IF i > Len(sensors) THEN <<>>
    ELSE (IF Include(sensors[i], cfg) THEN <<sensors[i]>> ELSE <<>>)
             \o FilterSensors(sensors, cfg, i + 1)

NothingToReportNever(list) == FALSE

\* len(sensors) == 0, len(filteredSensors) == 0
NothingToReport(list) == Len(list) = 0

ToReadingsPerSample(filtered, clientID, timestamp) ==
    [i \in 1..Len(filtered) |->
        Reading(filtered[i].ID, clientID, TempCelsius(filtered[i]),
                filtered[i].Type, filtered[i].Name, timestamp + i - 1)]

\* readings[i] = &jacuzziv1.TemperatureReading{...}, all with the one timestamp
ToReadings(filtered, clientID, timestamp) ==
    [i \in 1..Len(filtered) |->
        Reading(filtered[i].ID, clientID, TempCelsius(filtered[i]),
                filtered[i].Type, filtered[i].Name, timestamp)]

NextCycleStopOnError(result) == IF result = "error" THEN "exited" ELSE "waiting"

\* where the loop of runClient is after a cycle returned: the error is logged
\* and the loop waits for the next tick
NextCycle(result) == "waiting"

\* collectAndSendTemperatures returns
CycleReturns(a, result) ==
    [a EXCEPT !.pc = NextCycle(result), !.sensors = <<>>, !.req = <<>>,
              !.results = Append(@, result)]

\* runClient up to the first call of collectAndSendTemperatures
runClient(cfg) ==
    /\ agent.pc = "off"
    /\ agent' = [agent EXCEPT !.pc = "scan", !.cfg = cfg,
                              !.clientID = IF cfg.ID = "" THEN Hostname ELSE cfg.ID,
                              !.cycle = 1]
    /\ UNCHANGED <<db, pc, h, clock, log, query, monitor>>

\* the configuration cannot be loaded, or the server cannot be reached
runClientError ==
    /\ agent.pc = "off"
    /\ agent' = [agent EXCEPT !.pc = "exited"]
    /\ UNCHANGED <<db, pc, h, clock, log, query, monitor>>

\* the ticker's timer sends on ticker.C, a channel of capacity 1: a tick that
\* finds the channel full is dropped
TickerFires ==
    /\ agent.pc \notin {"off", "exited"}
    /\ agent' = [agent EXCEPT !.ticks = 1]
    /\ UNCHANGED <<db, pc, h, clock, log, query, monitor>>

LoopReadyAlways(a) == a.pc \notin {"off", "exited"}

\* the goroutine of runClient is at `for range ticker.C`: the call of
\* collectAndSendTemperatures it made has returned
LoopReady(a) == a.pc = "waiting"

\* for range ticker.C receives a tick and calls collectAndSendTemperatures
Tick ==
    /\ LoopReady(agent)
    /\ agent.ticks = 1
    /\ agent.cycle < MaxCycles
    /\ agent' = [agent EXCEPT !.pc = "scan", !.cycle = @ + 1, !.ticks = 0]
    /\ UNCHANGED <<db, pc, h, clock, log, query, monitor>>

\* sensors, err := monitor.GetTemperatures(); the scan takes time
Scan(outcome) ==
    /\ agent.pc = "scan"
    /\ agent' = IF outcome.err
                THEN CycleReturns(agent, "error")
                ELSE [agent EXCEPT !.pc = "filter", !.sensors = outcome.sensors,
                                   !.clock = @ + 1]
    /\ UNCHANGED <<db, pc, h, clock, log, query, monitor>>

\* collectAndSendTemperatures from the scan's return to the call of
\* client.SubmitTemperature
FilterAndSend ==
    /\ agent.pc = "filter"
    /\ LET filtered == FilterSensors(agent.sensors, agent.cfg, 1)
       IN  agent' =
             IF NothingToReport(agent.sensors) THEN CycleReturns(agent, "ok")
             ELSE IF NothingToReport(filtered) THEN CycleReturns(agent, "ok")
             ELSE [agent EXCEPT
                     !.pc = "rpc", !.sensors = <<>>, !.clock = @ + 1,
                     !.calls = Append(@, agent.cycle),
                     !.req = ToReadings(filtered, agent.clientID, agent.clock)]
    /\ UNCHANGED <<db, pc, h, clock, log, query, monitor>>

\* resp, err := client.SubmitTemperature(ctx, req) returns
SubmitReturn(outcome) ==
    /\ agent.pc = "rpc"
    /\ agent' = CycleReturns(agent, IF outcome = "success" THEN "ok" ELSE "error")
    /\ UNCHANGED <<db, pc, h, clock, log, query, monitor>>

NextP ==
    \/ \E cfg \in Configs : runClient(cfg)
    \/ runClientError
    \/ TickerFires
    \/ Tick
    \/ \E o \in ScanOutcomes : Scan(o)
    \/ FilterAndSend
    \/ \E o \in SubmitOutcomes : SubmitReturn(o)

SpecP == Init /\ [][NextP]_vars

\* the ticker keeps firing while the agent waits for it
SpecPLive == SpecP /\ WF_vars(Tick) /\ WF_vars(TickerFires)

(***************************************************************************)
(* The sensor scanner: TemperatureMonitor.GetTemperatures.  A text (a file *)
(* name, a file's contents, a sample's id or name) is a sequence of        *)
(* characters.  The files under /sys are the scanner's inputs: each Glob   *)
(* and each ReadFile returns what the machine holds at that moment.  A     *)
(* scan enumerates at most MaxEntries interfaces, channels and zones.      *)
(***************************************************************************)
\* os.ReadFile: the contents, or an error
File(text) == [err |-> FALSE, data |-> text]

NoFile == [err |-> TRUE, data |-> <<>>]

\* the name file of a hwmon interface
NameFiles ==
    {NoFile, File(<<"c", "o", "r", "e", "t", "e", "m", "p", "\n">>), File(<<"a", "m", "d", "g", "p", "u", "\n">>), File(<<"N", "V", "I", "D", "I", "A", "\n">>),
     File(<<"n", "v", "m", "e", "0", "\n">>), File(<<"u", "n", "k", "n", "o", "w", "n", "c", "h", "i", "p", "\n">>)}

\* the value file of a channel or of a thermal zone
InputFiles == {NoFile, File(<<"4", "2", "0", "0", "0", "\n">>), File(<<"n", "a", "n", "\n">>)}

\* the label file of a channel
LabelFiles ==
    {NoFile, File(<<"P", "a", "c", "k", "a", "g", "e", " ", "i", "d", " ", "0", "\n">>), File(<<"G", "P", "U", "\n">>),
     File(<<"n", "v", "m", "e", " ", "C", "o", "m", "p", "o", "s", "i", "t", "e", "\n">>), File(<<"\n">>), File(<<"T", "c", "t", "l", " ", "C", "P", "U", "\n">>)}

\* the type file of a thermal zone
TypeFiles == {NoFile, File(<<"a", "c", "p", "i", "t", "z", "\n">>), File(<<"x", "8", "6", "_", "p", "k", "g", "_", "t", "e", "m", "p", "\n">>)}

\* filepath.Glob: an error, or n matches
GlobOutcomes(left) ==
    {[err |-> TRUE, n |-> 0]} \cup {[err |-> FALSE, n |-> n] : n \in 0..left}

Digits == <<"0", "1", "2", "3", "4", "5", "6", "7", "8", "9">>

UpperCase == <<"A", "B", "C", "D", "E", "F", "G", "H", "I", "J", "K", "L", "M", "N", "O", "P", "Q", "R", "S", "T", "U", "V", "W", "X", "Y", "Z">>

LowerCase == <<"a", "b", "c", "d", "e", "f", "g", "h", "i", "j", "k", "l", "m", "n", "o", "p", "q", "r", "s", "t", "u", "v", "w", "x", "y", "z">>

\* unicode.IsSpace on the characters a sysfs file holds
Space == {" ", "\n", "\t", "\r"}

\* strings.TrimSpace
TrimSpace(s) ==
    LET kept == {i \in 1..Len(s) : s[i] \notin Space}
    IN  IF kept = {} THEN <<>>
        ELSE SubSeq(s, CHOOSE i \in kept : \A k \in kept : i <= k,
                       CHOOSE i \in kept : \A k \in kept : i >= k)

\* strings.ToLower
ToLower(s) ==
    [i \in 1..Len(s) |->
        IF \E k \in 1..Len(UpperCase) : UpperCase[k] = s[i]
        THEN LowerCase[CHOOSE k \in 1..Len(UpperCase) : UpperCase[k] = s[i]]
        ELSE s[i]]

\* strings.Contains
Contains(s, substr) ==
    \E i \in 0..(Len(s) - Len(substr)) : SubSeq(s, i + 1, i + Len(substr)) = substr

\* strings.Split(s, "_")
RECURSIVE Split(_)
Split(s) ==
    LET at == {i \in 1..Len(s) : s[i] = "_"}
    IN  IF at = {} THEN <<s>>
        ELSE LET i == CHOOSE i \in at : \A k \in at : i <= k
             IN  <<SubSeq(s, 1, i - 1)>> \o Split(SubSeq(s, i + 1, Len(s)))

\* strings.TrimPrefix
TrimPrefix(s, prefix) ==
    IF Len(s) >= Len(prefix) /\ SubSeq(s, 1, Len(prefix)) = prefix
    THEN SubSeq(s, Len(prefix) + 1, Len(s))
    ELSE s

\* the decimal value of a sequence of digits
RECURSIVE Decimal(_)
Decimal(ds) ==
    IF ds = <<>> THEN 0
    ELSE 10 * Decimal(SubSeq(ds, 1, Len(ds) - 1))
         + (CHOOSE d \in 0..9 : Digits[d + 1] = ds[Len(ds)])

\* strconv.ParseInt(s, 10, 64): an optional sign and one or more digits (the
\* values of the input files are far from the 64-bit range)
ParseInt(s) ==
    LET signed == s # <<>> /\ s[1] \in {"+", "-"}
        ds     == IF signed THEN Tail(s) ELSE s
        isNum  == ds # <<>> /\ \A i \in 1..Len(ds) : \E d \in 1..10 : Digits[d] = ds[i]
    IN  IF ~isNum THEN [err |-> TRUE, value |-> 0]
        ELSE [err |-> FALSE,
              value |-> IF signed /\ s[1] = "-" THEN 0 - Decimal(ds) ELSE Decimal(ds)]

\* the n-th name a Glob of prefix* returns: hwmon0, hwmon1, ...
Numbered(prefix, n) == prefix \o <<Digits[n + 1]>>

\* the matches of hwmon* under /sys/class/hwmon, by filepath.Base
HwmonDirs(n) == [k \in 1..n |-> Numbered(<<"h", "w", "m", "o", "n">>, k - 1)]

\* the matches of temp*_input in a hwmon interface: temp1_input, temp2_input, ...
TempFiles(n) == [k \in 1..n |-> Numbered(<<"t", "e", "m", "p">>, k) \o <<"_", "i", "n", "p", "u", "t">>]

\* the matches of thermal_zone* under /sys/class/thermal
ThermalDirs(n) == [k \in 1..n |-> Numbered(<<"t", "h", "e", "r", "m", "a", "l", "_", "z", "o", "n", "e">>, k - 1)]

\* what a loop iteration of the scanner has read: the directory, the channel's
\* file name, its value file, and its label (or the zone's type) file
Locals(dir, base, input, label) ==
    [dir |-> dir, base |-> base, input |-> input, label |-> label]

\* deviceName := "Unknown", replaced by the trimmed contents of the name file
DeviceName(nameFile) ==
    IF nameFile.err THEN <<"U", "n", "k", "n", "o", "w", "n">> ELSE TrimSpace(nameFile.data)

\* sensorNum := strings.TrimPrefix(parts[0], "temp")
SensorNum(base) == TrimPrefix(Split(base)[1], <<"t", "e", "m", "p">>)

LabelPlain(deviceName, sensorNum, labelFile) ==
    IF labelFile.err THEN deviceName \o <<"_">> \o sensorNum
    ELSE TrimSpace(labelFile.data)

\* label := fmt.Sprintf("%s_temp%s", deviceName, sensorNum), replaced by the
\* trimmed contents of the label file when it can be read
Label(deviceName, sensorNum, labelFile) ==
    IF labelFile.err THEN deviceName \o <<"_", "t", "e", "m", "p">> \o sensorNum
    ELSE TrimSpace(labelFile.data)

ClassifyCaseSensitive(label, deviceName) ==
    IF Contains(label, <<"c", "p", "u">>) \/ Contains(deviceName, <<"c", "o", "r", "e", "t", "e", "m", "p">>) THEN "CPU"
    ELSE IF \/ Contains(label, <<"g", "p", "u">>)
            \/ Contains(deviceName, <<"a", "m", "d", "g", "p", "u">>)
            \/ Contains(deviceName, <<"n", "v", "i", "d", "i", "a">>) THEN "GPU"
    ELSE IF Contains(label, <<"n", "v", "m", "e">>) \/ Contains(deviceName, <<"n", "v", "m", "e">>) THEN "DISK"
    ELSE "OTHER"

\* sensorType := "OTHER" and the if / else-if chain on the lowered label and
\* device name
Classify(label, deviceName) ==
    LET labelLower  == ToLower(label)
        deviceLower == ToLower(deviceName)
    IN  IF Contains(labelLower, <<"c", "p", "u">>) \/ Contains(deviceLower, <<"c", "o", "r", "e", "t", "e", "m", "p">>)
        THEN "CPU"
        ELSE IF \/ Contains(labelLower, <<"g", "p", "u">>)
                \/ Contains(deviceLower, <<"a", "m", "d", "g", "p", "u">>)
                \/ Contains(deviceLower, <<"n", "v", "i", "d", "i", "a">>)
        THEN "GPU"
        ELSE IF Contains(labelLower, <<"n", "v", "m", "e">>) \/ Contains(deviceLower, <<"n", "v", "m", "e">>)
        THEN "DISK"
        ELSE "OTHER"

HwmonIDByPosition(hwmonDir, sensorNum, position) ==
    hwmonDir \o <<"_">> \o <<Digits[position + 1]>>

\* ID: fmt.Sprintf("%s_%s", filepath.Base(hwmonDir), sensorNum); position is
\* the number of samples the interface has already given
HwmonID(hwmonDir, sensorNum, position) == hwmonDir \o <<"_">> \o sensorNum

\* hwmonDirs, err := filepath.Glob(.../hwmon*)
GetTemperatures(glob) ==
    /\ monitor.pc = "idle"
    /\ monitor' =
         IF glob.err
         THEN [monitor EXCEPT !.pc = "done", !.err = TRUE, !.result = <<>>]
         ELSE [monitor EXCEPT !.pc = "device", !.hwmonDirs = HwmonDirs(glob.n),
                              !.used = @ + glob.n]
    /\ UNCHANGED <<db, pc, h, clock, log, query, agent>>

\* readHwmonDevice up to its loop over the channel files
readHwmonDevice(nameFile, glob) ==
    /\ monitor.pc = "device"
    /\ monitor.i < Len(monitor.hwmonDirs)
    /\ monitor' =
         IF glob.err
         THEN [monitor EXCEPT !.i = @ + 1]
         ELSE [monitor EXCEPT !.pc = "channel", !.nameFile = nameFile,
                              !.deviceName = DeviceName(nameFile),
                              !.tempFiles = TempFiles(glob.n), !.j = 0,
                              !.deviceSensors = <<>>, !.used = @ + glob.n]
    /\ UNCHANGED <<db, pc, h, clock, log, query, agent>>

SkipBadChannelNever(parts, file) == FALSE

\* the three `continue` of the loop: a file name without "_", an unreadable
\* value file, a value that does not parse
SkipBadChannel(parts, file) ==
    \/ Len(parts) < 2
    \/ file.err
    \/ ParseInt(TrimSpace(file.data)).err

\* one turn of the loop over the channel files
readHwmonChannel(input, labelFile) ==
    /\ monitor.pc = "channel"
    /\ monitor.j < Len(monitor.tempFiles)
    /\ LET hwmonDir  == monitor.hwmonDirs[monitor.i + 1]
           base      == monitor.tempFiles[monitor.j + 1]
           sensorNum == SensorNum(base)
           label     == Label(monitor.deviceName, sensorNum, labelFile)
           sensor    == TemperatureSensor(
                            HwmonID(hwmonDir, sensorNum, Len(monitor.deviceSensors)),
                            Classify(label, monitor.deviceName),
                            label,
                            ParseInt(TrimSpace(input.data)).value)
       IN  monitor' =
             IF SkipBadChannel(Split(base), input)
             THEN [monitor EXCEPT !.j = @ + 1,
                                  !.last = Locals(hwmonDir, base, input, NoFile)]
             ELSE [monitor EXCEPT !.j = @ + 1,
                                  !.last = Locals(hwmonDir, base, input, labelFile),
                                  !.deviceSensors = Append(@, sensor)]
    /\ UNCHANGED <<db, pc, h, clock, log, query, agent>>

\* readHwmonDevice returns: sensors = append(sensors, deviceSensors...)
hwmonDeviceRead ==
    /\ monitor.pc = "channel"
    /\ monitor.j = Len(monitor.tempFiles)
    /\ monitor' = [monitor EXCEPT !.pc = "device", !.i = @ + 1,
                                  !.sensors = @ \o monitor.deviceSensors,
                                  !.deviceSensors = <<>>, !.deviceName = <<>>,
                                  !.nameFile = NoFile,
                                  !.tempFiles = <<>>, !.j = 0]
    /\ UNCHANGED <<db, pc, h, clock, log, query, agent>>

ReturnedFatal(m, thermalSensors) ==
    [m EXCEPT !.pc = "done", !.err = TRUE, !.result = <<>>]

\* what GetTemperatures returns after the thermal zones: the hwmon samples and
\* then the thermal samples, no error
Returned(m, thermalSensors) ==
    [m EXCEPT !.pc = "done", !.err = FALSE, !.result = m.sensors \o thermalSensors]

\* readThermalZones up to its loop; its error is ignored by GetTemperatures
readThermalZones(glob) ==
    /\ monitor.pc = "device"
    /\ monitor.i = Len(monitor.hwmonDirs)
    /\ monitor' =
         IF glob.err
         THEN Returned([monitor EXCEPT !.thermalErr = TRUE], <<>>)
         ELSE [monitor EXCEPT !.pc = "zone", !.thermalDirs = ThermalDirs(glob.n),
                              !.z = 0, !.thermalSensors = <<>>,
                              !.used = @ + glob.n]
    /\ UNCHANGED <<db, pc, h, clock, log, query, agent>>

\* zoneType := "thermal", replaced by the trimmed contents of the type file
ZoneType(typeFile) ==
    IF typeFile.err THEN <<"t", "h", "e", "r", "m", "a", "l">> ELSE TrimSpace(typeFile.data)

SkipBadZoneNever(file) == FALSE

\* the two `continue` of the loop over the zones
SkipBadZone(file) == file.err \/ ParseInt(TrimSpace(file.data)).err

\* one turn of the loop over the thermal zones
readThermalZone(temp, typeFile) ==
    /\ monitor.pc = "zone"
    /\ monitor.z < Len(monitor.thermalDirs)
    /\ LET thermalDir == monitor.thermalDirs[monitor.z + 1]
           sensor     == TemperatureSensor(thermalDir, "CPU", ZoneType(typeFile),
                                           ParseInt(TrimSpace(temp.data)).value)
       IN  monitor' =
             IF SkipBadZone(temp)
             THEN [monitor EXCEPT !.z = @ + 1,
                                  !.last = Locals(thermalDir, <<>>, temp, NoFile)]
             ELSE [monitor EXCEPT !.z = @ + 1,
                                  !.last = Locals(thermalDir, <<>>, temp, typeFile),
                                  !.thermalSensors = Append(@, sensor)]
    /\ UNCHANGED <<db, pc, h, clock, log, query, agent>>

\* readThermalZones returns and GetTemperatures returns sensors, nil
thermalZonesRead ==
    /\ monitor.pc = "zone"
    /\ monitor.z = Len(monitor.thermalDirs)
    /\ monitor' = Returned(monitor, monitor.thermalSensors)
    /\ UNCHANGED <<db, pc, h, clock, log, query, agent>>

\* the next cycle's call of monitor.GetTemperatures
nextScan ==
    /\ monitor.pc = "done"
    /\ monitor' = IdleMonitor
    /\ UNCHANGED <<db, pc, h, clock, log, query, agent>>

NextS ==
    \/ \E glob \in GlobOutcomes(MaxEntries) : GetTemperatures(glob)
    \/ \E nameFile \in NameFiles, glob \in GlobOutcomes(MaxEntries - monitor.used) :
          readHwmonDevice(nameFile, glob)
    \/ \E input \in InputFiles, labelFile \in LabelFiles :
          readHwmonChannel(input, labelFile)
    \/ hwmonDeviceRead
    \/ \E glob \in GlobOutcomes(MaxEntries - monitor.used) : readThermalZones(glob)
    \/ \E temp \in InputFiles, typeFile \in TypeFiles : readThermalZone(temp, typeFile)
    \/ thermalZonesRead
    \/ nextScan

SpecS == Init /\ [][NextS]_vars

(***************************************************************************)
(* Properties                                                              *)
(***************************************************************************)
Rids == 1..Len(log)

\* request rid is answered in this step with the given status
Answered(rid, st) == log[rid].status = "pending" /\ log'[rid].status = st

\* request rid enters the handler in this step
Arrives(rid) == rid = Len(log) + 1 /\ Len(log') = rid

\* the clients, and the sensors, a batch mentions
ClientsOf(batch) == {batch[i].clientId : i \in 1..Len(batch)}

SensorsOf(batch) == {batch[i].sensorId : i \in 1..Len(batch)}

\* the rows a batch is to be stored as: one per reading, in order, with the
\* agent's timestamp
ExpectedRows(rid) ==
    [i \in 1..Len(log[rid].batch) |->
        LET r == log[rid].batch[i]
        IN  [SensorID |-> r.sensorId, ClientID |-> r.clientId,
             TemperatureCelsius |-> r.celsius, SensorType |-> r.sensorType,
             SensorName |-> r.sensorName, CreatedAt |-> r.timestamp, batch |-> rid]]

\* C1: SubmitTemperature with an empty readings list answers InvalidArgument,
\* opens no transaction and leaves the store (and every open transaction)
\* as it was.
C1_EmptyBatchRejected ==
    [][\A rid \in 1..MaxReq :
          (Arrives(rid) /\ log'[rid].batch = <<>>) =>
              /\ log'[rid].status = "InvalidArgument"
              /\ ~log'[rid].opened
              /\ db' = db /\ h' = h /\ pc' = pc]_vars

\* an empty batch has been answered while the store already holds readings
C1_Witness ==
    \E rid \in Rids : /\ log[rid].batch = <<>>
                      /\ log[rid].status = "InvalidArgument"
                      /\ db.readings # <<>>

\* C2: a batch is atomic: when it is answered OK, every reading of it is stored
\* and the host of every reading carries a lastSeen of this batch; when it is
\* answered otherwise, and in every other step, the store does not change.
C2_BatchAtomic ==
    [][/\ \A rid \in Rids :
            Answered(rid, "OK") =>
                /\ db'.readings = db.readings \o ExpectedRows(rid)
                /\ \A c \in ClientsOf(log[rid].batch) :
                      /\ c \in DOMAIN db'.hosts
                      /\ db'.hosts[c].LastSeen >= log[rid].arrived
                /\ SensorsOf(log[rid].batch) \subseteq DOMAIN db'.sensors
       /\ (\A rid \in Rids : ~Answered(rid, "OK")) => db' = db]_vars

\* C3: a batch for a host that already has a record leaves the record's
\* firstSeen as it was and sets its lastSeen to a time of this batch.
C3_SecondBatchAdvancesLastSeen ==
    [][\A rid \in Rids : \A c \in ClientsOf(log[rid].batch) \cap DOMAIN db.hosts :
          Answered(rid, "OK") =>
              /\ db'.hosts[c].FirstSeen = db.hosts[c].FirstSeen
              /\ db'.hosts[c].LastSeen >= log[rid].arrived
              /\ db'.hosts[c].LastSeen < clock]_vars

\* C4: a host record created by a batch has firstSeen = the server time (now)
\* of that submission, and a batch creates a record only for a host that has
\* none.
C4_FirstSeenIsNow ==
    [][\A rid \in Rids : \A c \in ClientsOf(log[rid].batch) :
          (Answered(rid, "OK") /\ c \notin DOMAIN db.hosts) =>
              /\ c \in DOMAIN db'.hosts
              /\ db'.hosts[c].FirstSeen >= log[rid].arrived
              /\ db'.hosts[c].FirstSeen < clock]_vars

\* C5: every host record, committed or written by an open transaction, has
\* firstSeen <= lastSeen.
C5_FirstSeenBeforeLastSeen ==
    /\ \A c \in DOMAIN db.hosts : db.hosts[c].FirstSeen <= db.hosts[c].LastSeen
    /\ \A p \in Procs : \A c \in DOMAIN h[p].tx.hosts :
          h[p].tx.hosts[c].FirstSeen <= h[p].tx.hosts[c].LastSeen

\* a host record that two committed batches have written
C5_Witness ==
    \E c \in DOMAIN db.hosts :
        /\ Cardinality({rid \in Rids : /\ log[rid].status = "OK"
                                       /\ c \in ClientsOf(log[rid].batch)}) = 2
        /\ db.hosts[c].LastSeen > 1

\* C6: after a batch is committed, the sensor record of every sensor it
\* mentions has the type and name of the batch's last reading for that sensor.
C6_SensorLastWriteWins ==
    [][\A rid \in Rids : \A i \in 1..Len(log[rid].batch) :
          LET b == log[rid].batch
          IN  (/\ Answered(rid, "OK")
               /\ \A j \in (i + 1)..Len(b) : b[j].sensorId # b[i].sensorId) =>
                  /\ b[i].sensorId \in DOMAIN db'.sensors
                  /\ db'.sensors[b[i].sensorId].SensorType = b[i].sensorType
                  /\ db'.sensors[b[i].sensorId].SensorName = b[i].sensorName]_vars

C8_ErrorNeverSuccess ==
    \A rid \in Rids : log[rid].erred => log[rid].status \in {"pending", "Internal"}

\* a reading that lacks an identifier
Malformed(batch) ==
    \E i \in 1..Len(batch) : batch[i].sensorId = "" \/ batch[i].clientId = ""

\* C9: a batch with a reading that lacks its sensorId or its hostId is
\* rejected as a client-input error before a transaction opens.
C9_MalformedRejected ==
    \A rid \in Rids :
        Malformed(log[rid].batch) =>
            log[rid].status = "InvalidArgument" /\ ~log[rid].opened

\* the stored rows of the batches in K
Snapshot(K) == SelectSeq(db.readings, LAMBDA row : row.batch \in K)

\* the responses a query may give on the rows given
ResultsOn(rows, kind, req) ==
    IF kind = "history" THEN HistoryResults(rows, req)
    ELSE IF kind = "current" THEN CurrentResults(rows, req)
    ELSE StatsResults(rows, req)

\* C10: the response of a query is a response to the whole of some set of
\* committed batches: no batch is reflected in part, and none that was not
\* committed is reflected at all.
C10_QuerySeesWholeBatches ==
    (query.status = "OK") =>
        \E K \in SUBSET {rid \in Rids : log[rid].status = "OK"} :
            query.out \in ResultsOn(Snapshot(K), query.kind, query.req)

\* the step on which a query of the kind given is answered OK
QueryAnswered(kind) ==
    /\ query'.n = query.n + 1 \/ query.status = "pending"
    /\ query'.kind = kind
    /\ query'.status = "OK"

\* the stored rows of a sensor of a host
RowsOf(clientId, sensorId) ==
    {i \in 1..Len(db.readings) : /\ db.readings[i].ClientID = clientId
                                 /\ db.readings[i].SensorID = sensorId}

\* C11: GetCurrentTemperatures(hostId) returns at most one row per sensorId of
\* the host, and the timestamp of a returned row is >= that of every stored
\* reading of its sensor for the host (readings of one sensor that share a
\* timestamp included).
C11_AtMostOneRowPerSensor ==
    [][QueryAnswered("current") =>
          LET out == query'.out
          IN  /\ \A j, k \in 1..Len(out) : out[j].sensorId = out[k].sensorId => j = k
              /\ \A j \in 1..Len(out) :
                    \A i \in RowsOf(query'.req.clientId, out[j].sensorId) :
                        out[j].timestamp >= db.readings[i].CreatedAt]_vars

\* the sensors of a host that have a stored reading
StoredSensors(clientId) ==
    {db.readings[i].SensorID :
        i \in {j \in 1..Len(db.readings) : db.readings[j].ClientID = clientId}}

Satisfies(row, req) ==
    /\ req.clientId # "" => row.ClientID = req.clientId
    /\ req.sensorId # "" => row.SensorID = req.sensorId
    /\ req.start # Nil => row.CreatedAt >= req.start
    /\ req.end # Nil => row.CreatedAt <= req.end

\* C13: GetTemperatureHistory returns only stored readings that satisfy every
\* supplied filter (an absent filter matches all), each at most once, ordered
\* by timestamp non-increasing; it returns all of them up to the limit applied,
\* and the readings left out have timestamps <= those of the readings returned.
C13_HistoryFilteredAndOrdered ==
    [][QueryAnswered("history") =>
          LET out  == query'.out
              req  == query'.req
              rows == db.readings
              all  == {i \in 1..Len(rows) : Satisfies(rows[i], req)}
              lim  == HistoryLimit(req)
          IN  /\ Len(out) = IF Cardinality(all) < lim THEN Cardinality(all) ELSE lim
              /\ \A j \in 1..Len(out) - 1 : out[j].timestamp >= out[j + 1].timestamp
              /\ \E g \in [1..Len(out) -> all] :
                    /\ \A j, k \in 1..Len(out) : g[j] = g[k] => j = k
                    /\ \A j \in 1..Len(out) : out[j] = ToProto(rows[g[j]])
                    /\ \A i \in all \ {g[j] : j \in 1..Len(out)} :
                          \A j \in 1..Len(out) : rows[i].CreatedAt <= out[j].timestamp]_vars

\* a history with limit 1 answered with the later of two stored readings
C13_Witness ==
    /\ query.kind = "history" /\ query.status = "OK"
    /\ query.req.limit = 1 /\ query.req.sensorId = "hwmon0_1" /\ query.req.start = Nil
    /\ Len(query.out) = 1 /\ query.out[1].timestamp = 2
    /\ \E i \in 1..Len(db.readings) :
          db.readings[i].SensorID = "hwmon0_1" /\ db.readings[i].CreatedAt = 1

\* the limit of the specification: (0, 1000], 100 when none is given
ClampedLimit(limit) ==
    IF limit <= 0 THEN LimitDefault ELSE IF limit > LimitMax THEN LimitMax ELSE limit

\* C14: the limit applied by GetTemperatureHistory is the requested one clamped
\* to (0, 1000] with default 100 (above 1000 it is 1000), and no more readings
\* than that are returned.
C14_LimitClamped ==
    (query.kind = "history" /\ query.status = "OK") =>
        /\ HistoryLimit(query.req) = ClampedLimit(query.req.limit)
        /\ Len(query.out) <= ClampedLimit(query.req.limit)

FilteredRowsOf(req, sensorId) ==
    {i \in 1..Len(db.readings) :
        /\ Satisfies(db.readings[i], [req EXCEPT !.sensorId = ""])
        /\ db.readings[i].SensorID = sensorId}

\* C16: GetTemperatureStats with sensorId omitted returns one entry for every
\* sensorId present in the filtered set (host and time window), and the min,
\* max, avg and count of an entry are those of that sensor's readings in the
\* filtered set, whatever other sensors the call processes.
C16_StatsPerSensor ==
    [][(QueryAnswered("stats") /\ query'.req.sensorId = "") =>
          LET out == query'.out
              req == query'.req
              ids == {s \in {db.readings[i].SensorID : i \in 1..Len(db.readings)} :
                         FilteredRowsOf(req, s) # {}}
          IN  /\ DOMAIN out = ids
              /\ \A s \in ids : out[s] = Aggregate(db.readings, FilteredRowsOf(req, s))]_vars

\* the filter policy: the type's flag is enabled, or the type has no flag
Wanted(sensor, cfg) ==
    \/ sensor.Type = "CPU" /\ cfg.CPU
    \/ sensor.Type = "GPU" /\ cfg.GPU
    \/ sensor.Type = "DISK" /\ cfg.Disk
    \/ sensor.Type \notin {"CPU", "GPU", "DISK"}

\* the scanned samples the policy selects, in scan order
WantedOf(a) == SelectSeq(a.sensors, LAMBDA sensor : Wanted(sensor, a.cfg))

\* this step is the agent's goroutine leaving the filter: it calls
\* SubmitTemperature or returns from the cycle
Filters == agent.pc = "filter" /\ agent'.pc # "filter"

\* this step calls SubmitTemperature
CallMade == Len(agent'.calls) = Len(agent.calls) + 1

\* the readings this step submits (none when it makes no call)
Sent == IF CallMade THEN agent'.req ELSE <<>>

\* C17: the batch of a cycle holds exactly the scanned samples whose type is
\* CPU, GPU or DISK with its flag enabled, or any other type whatever the
\* flags, in scan order, and nothing that was not scanned.
C17_FilterPolicy ==
    [][Filters =>
          LET want == WantedOf(agent)
          IN  /\ Len(Sent) = Len(want)
              /\ \A i \in 1..Len(want) :
                    /\ Sent[i].sensorId = want[i].ID
                    /\ Sent[i].sensorType = want[i].Type
                    /\ Sent[i].sensorName = want[i].Name
                    /\ Sent[i].celsius = TempCelsius(want[i])]_vars

\* with CPU disabled and GPU enabled, a batch of an OTHER and a GPU sample is
\* on its way
C17_Witness ==
    /\ agent.pc = "rpc"
    /\ ~agent.cfg.CPU /\ agent.cfg.GPU /\ ~agent.cfg.Disk
    /\ Len(agent.req) = 2
    /\ agent.req[1].sensorType = "OTHER" /\ agent.req[2].sensorType = "GPU"

\* C18: a cycle whose scan yields no sample, or none that passes the filter,
\* makes no SubmitTemperature call and returns without error; no call ever
\* carries an empty batch.
C18_EmptyCycleIsNoOp ==
    [][/\ (Filters /\ WantedOf(agent) = <<>>) =>
             /\ agent'.calls = agent.calls
             /\ agent'.results = Append(agent.results, "ok")
       /\ CallMade => agent'.req # <<>>]_vars

\* two cycles have returned without error and without a call
C18_Witness ==
    /\ Len(agent.results) = 2
    /\ agent.results[1] = "ok" /\ agent.results[2] = "ok"
    /\ agent.calls = <<>>

\* C19: a cycle makes at most one SubmitTemperature call; the call carries
\* every filtered sample of the cycle, and all its readings carry the host id
\* and the one timestamp taken when the batch is assembled, after the scan.
C19_OneCallOneTimestamp ==
    [][/\ \A i, j \in 1..Len(agent'.calls) :
             agent'.calls[i] = agent'.calls[j] => i = j
       /\ agent'.calls # agent.calls => CallMade
       /\ CallMade =>
             /\ agent.pc = "filter"
             /\ agent'.calls[Len(agent'.calls)] = agent.cycle
             /\ Len(Sent) = Len(WantedOf(agent))
             /\ \A i \in 1..Len(Sent) : /\ Sent[i].timestamp = agent.clock
                                        /\ Sent[i].clientId = agent.clientID]_vars

\* the second cycle has sent a batch of two readings, after the first sent one
C19_Witness ==
    /\ agent.calls = <<1, 2>>
    /\ agent.pc = "rpc"
    /\ Len(agent.req) = 2

\* C20: a failed cycle (scan error, submit error, or a response without
\* success) never stops the poller: the agent then waits for the ticker with
\* nothing kept of the cycle but its reported result, and the next tick starts
\* the next cycle with a scan.
C20_FailedCycleNeverStops ==
    /\ [](agent.cycle >= 1 =>
             /\ agent.pc # "exited"
             /\ Len(agent.results) = agent.cycle =>
                   agent.pc = "waiting" /\ agent.sensors = <<>> /\ agent.req = <<>>)
    /\ \A c \in 1..(MaxCycles - 1) :
          (agent.cycle = c /\ Len(agent.results) = c /\ agent.results[c] = "error")
              ~> (agent.cycle = c + 1 /\ agent.pc = "scan")

\* the second cycle submits a batch after the first cycle's submission failed
C20_Witness ==
    /\ agent.cycle = 2 /\ agent.pc = "rpc"
    /\ agent.results = <<"error">>
    /\ agent.calls = <<1, 2>>

\* a cycle of the agent is in progress
InCycle(a) == a.pc \in {"scan", "filter", "rpc"}

\* C21: cycles of an agent never overlap: a cycle starts only when no cycle is
\* in progress and every earlier cycle has returned, also when the ticker
\* fired while a cycle was running.
C21_CyclesNeverOverlap ==
    [][agent'.cycle # agent.cycle =>
          /\ ~InCycle(agent)
          /\ Len(agent.results) = agent.cycle
          /\ agent'.cycle = agent.cycle + 1]_vars

\* the second cycle runs; its tick arrived while the first cycle was still
\* waiting for the server, and another tick is already pending
C21_Witness ==
    /\ agent.cycle = 2 /\ agent.pc = "rpc"
    /\ agent.calls = <<1, 2>>
    /\ agent.ticks = 1
\* this step is one turn of the loop over an interface's channel files
ChannelTurn == monitor.pc = "channel" /\ monitor'.j = monitor.j + 1

\* this step is one turn of the loop over the thermal zones
ZoneTurn == monitor.pc = "zone" /\ monitor'.z = monitor.z + 1

\* the text is an integer in decimal notation
IsInteger(text) ==
    LET ds == IF text # <<>> /\ text[1] \in {"+", "-"} THEN Tail(text) ELSE text
    IN  /\ ds # <<>>
        /\ \A i \in 1..Len(ds) : ds[i] \in {"0", "1", "2", "3", "4", "5", "6", "7", "8", "9"}

\* the value file is readable and its contents, surrounding white space
\* apart, are an integer
ValidValue(file) ==
    /\ ~file.err
    /\ \E a, b \in 1..Len(file.data) :
          /\ \A i \in 1..Len(file.data) : (i < a \/ i > b) => file.data[i] \in Space
          /\ IsInteger(SubSeq(file.data, a, b))

\* the contents of a file without the surrounding white space
Trimmed(file) ==
    IF \A i \in 1..Len(file.data) : file.data[i] \in Space THEN <<>>
    ELSE LET a == CHOOSE a \in 1..Len(file.data) :
                     /\ file.data[a] \notin Space
                     /\ \A i \in 1..(a - 1) : file.data[i] \in Space
             b == CHOOSE b \in 1..Len(file.data) :
                     /\ file.data[b] \notin Space
                     /\ \A i \in (b + 1)..Len(file.data) : file.data[i] \in Space
         IN  SubSeq(file.data, a, b)

\* the integer the value file of the pool holds
ValueOf(file) == IF Trimmed(file) = <<"4", "2", "0", "0", "0">> THEN 42000 ELSE 0

\* the sample the latest loop turn appended
Latest(samples) == samples[Len(samples)]

\* C22: every channel of a hwmon interface whose value file is readable and
\* parses as an integer gives exactly one sample, with that value; an
\* unreadable or unparseable channel gives none, keeps the samples of its
\* siblings and leaves the scan running; the interface's samples all reach
\* the scan's result, and a scan that enumerated the interfaces returns no
\* error.
C22_OneSamplePerValidChannel ==
    /\ [][/\ ChannelTurn =>
                /\ monitor'.pc = "channel" /\ ~monitor'.err
                /\ monitor'.sensors = monitor.sensors
                /\ IF ValidValue(monitor'.last.input)
                   THEN /\ Len(monitor'.deviceSensors) = Len(monitor.deviceSensors) + 1
                        /\ SubSeq(monitor'.deviceSensors, 1, Len(monitor.deviceSensors))
                              = monitor.deviceSensors
                        /\ Latest(monitor'.deviceSensors).TempMilliC
                              = ValueOf(monitor'.last.input)
                   ELSE monitor'.deviceSensors = monitor.deviceSensors
          /\ (monitor.pc = "channel" /\ monitor'.pc = "device") =>
                monitor'.sensors = monitor.sensors \o monitor.deviceSensors
          /\ (monitor.pc # "done" /\ monitor'.pc = "done" /\ monitor.pc # "idle") =>
                /\ ~monitor'.err
                /\ SubSeq(monitor'.result, 1, Len(monitor.sensors)) = monitor.sensors]_vars

\* the second channel of an interface was unreadable or unparseable and the
\* sample of the first is kept
C22_Witness ==
    /\ monitor.pc = "channel" /\ monitor.j = 2
    /\ ~ValidValue(monitor.last.input)
    /\ Len(monitor.deviceSensors) = 1
    /\ monitor.deviceSensors[1].ID = <<"h", "w", "m", "o", "n", "0", "_", "1">>

\* the classification rules, in order: where to look, for which substring,
\* and the type a hit gives
Rules ==
    <<[in |-> "label",  substr |-> <<"c", "p", "u">>,      type |-> "CPU"],
      [in |-> "device", substr |-> <<"c", "o", "r", "e", "t", "e", "m", "p">>, type |-> "CPU"],
      [in |-> "label",  substr |-> <<"g", "p", "u">>,      type |-> "GPU"],
      [in |-> "device", substr |-> <<"a", "m", "d", "g", "p", "u">>,   type |-> "GPU"],
      [in |-> "device", substr |-> <<"n", "v", "i", "d", "i", "a">>,   type |-> "GPU"],
      [in |-> "label",  substr |-> <<"n", "v", "m", "e">>,     type |-> "DISK"],
      [in |-> "device", substr |-> <<"n", "v", "m", "e">>,     type |-> "DISK"]>>

\* the two characters are the same letter, whatever their case
SameLetter(c, d) ==
    \/ c = d
    \/ \E k \in 1..Len(UpperCase) :
          {c, d} = {UpperCase[k], LowerCase[k]}

\* the rule's substring occurs in the text it looks at, whatever the case
Hit(rule, label, deviceName) ==
    LET text == IF rule.in = "label" THEN label ELSE deviceName
        n    == Len(rule.substr)
    IN  \E i \in 0..(Len(text) - n) :
           \A k \in 1..n : SameLetter(text[i + k], rule.substr[k])

\* first hit wins, default OTHER
FirstHit(label, deviceName) ==
    LET hits == {k \in 1..Len(Rules) : Hit(Rules[k], label, deviceName)}
    IN  IF hits = {} THEN "OTHER"
        ELSE Rules[CHOOSE k \in hits : \A l \in hits : k <= l].type

\* C23: the type of a hwmon sample is the first hit of the ordered rule list
\* on (label, deviceName), whatever the case of the letters, default OTHER;
\* ("Package id 0", "coretemp") is CPU, ("nvme Composite", "nvme0") is DISK,
\* ("", "unknownchip") is OTHER, and a label that hits a GPU rule on a device
\* that hits a CPU rule is CPU.
C23_ClassificationRules ==
    [][(ChannelTurn /\ monitor'.deviceSensors # monitor.deviceSensors) =>
          LET sample == Latest(monitor'.deviceSensors)
              label  == sample.Name
              device == monitor.deviceName
          IN  /\ sample.Type = FirstHit(label, device)
              /\ (label = <<"P", "a", "c", "k", "a", "g", "e", " ", "i", "d", " ", "0">> /\ device = <<"c", "o", "r", "e", "t", "e", "m", "p">>) => sample.Type = "CPU"
              /\ (label = <<"n", "v", "m", "e", " ", "C", "o", "m", "p", "o", "s", "i", "t", "e">> /\ device = <<"n", "v", "m", "e", "0">>) => sample.Type = "DISK"
              /\ (label = <<>> /\ device = <<"u", "n", "k", "n", "o", "w", "n", "c", "h", "i", "p">>) => sample.Type = "OTHER"
              /\ (label = <<"G", "P", "U">> /\ device = <<"c", "o", "r", "e", "t", "e", "m", "p">>) => sample.Type = "CPU"]_vars

\* a channel labelled GPU of the coretemp interface is classified CPU
C23_Witness ==
    /\ monitor.pc = "channel"
    /\ monitor.deviceName = <<"c", "o", "r", "e", "t", "e", "m", "p">>
    /\ monitor.deviceSensors # <<>>
    /\ Latest(monitor.deviceSensors).Name = <<"G", "P", "U">>
    /\ Latest(monitor.deviceSensors).Type = "CPU"

\* the zone's type string, as far as the type file gives one
TypeString(file) == IF file.err THEN <<>> ELSE Trimmed(file)

\* readThermalZones has returned and GetTemperatures returns
ZonesReturn == monitor.pc = "zone" /\ monitor'.pc = "done"

\* C24 as stated: every thermal zone contributes exactly one sample, of type
\* CPU, named by the zone's type string, with the zone's raw value; the
\* thermal samples follow the hwmon samples in the result.
C24_EveryZoneOneSample ==
    [][/\ ZoneTurn =>
             /\ Len(monitor'.thermalSensors) = Len(monitor.thermalSensors) + 1
             /\ Latest(monitor'.thermalSensors).Type = "CPU"
             /\ Latest(monitor'.thermalSensors).Name = TypeString(monitor'.last.label)
             /\ Latest(monitor'.thermalSensors).TempMilliC = ValueOf(monitor'.last.input)
       /\ ZonesReturn =>
             /\ monitor'.result = monitor.sensors \o monitor.thermalSensors
             /\ Len(monitor.thermalSensors) = Len(monitor.thermalDirs)]_vars

\* C24, amended: every thermal zone whose temperature file is readable and
\* parses as an integer contributes exactly one sample, of type CPU whatever
\* the zone's type string, named by the zone's type string ("thermal" when the
\* type file cannot be read), with the zone's raw value; a zone whose
\* temperature cannot be read or parsed contributes none; the thermal samples
\* follow the hwmon samples in the result, nothing is removed, and the
\* result's length is the number of hwmon samples plus the number of thermal
\* samples.
C24_ReadableZoneOneSample ==
    [][/\ ZoneTurn =>
             /\ SubSeq(monitor'.thermalSensors, 1, Len(monitor.thermalSensors))
                   = monitor.thermalSensors
             /\ IF ValidValue(monitor'.last.input)
                THEN LET sample == Latest(monitor'.thermalSensors)
                         file   == monitor'.last.label
                     IN  /\ Len(monitor'.thermalSensors) = Len(monitor.thermalSensors) + 1
                         /\ sample.Type = "CPU"
                         /\ sample.Name = IF file.err THEN <<"t", "h", "e", "r", "m", "a", "l">>
                                          ELSE TypeString(file)
                         /\ sample.TempMilliC = ValueOf(monitor'.last.input)
                ELSE monitor'.thermalSensors = monitor.thermalSensors
       /\ ZonesReturn =>
             /\ monitor'.result = monitor.sensors \o monitor.thermalSensors
             /\ Len(monitor'.result) = Len(monitor.sensors) + Len(monitor.thermalSensors)]_vars

\* a scan of two thermal zones returns one hwmon sample followed by the sample
\* of the one zone whose temperature could be read
C24_Witness ==
    /\ monitor.pc = "done"
    /\ Len(monitor.thermalDirs) = 2
    /\ Len(monitor.sensors) = 1
    /\ Len(monitor.result) = 2
    /\ monitor.result[1].ID = <<"h", "w", "m", "o", "n", "0", "_", "1">>
    /\ monitor.result[2].Type = "CPU"

\* the hwmon samples gathered so far in the scan
HwmonSamples == monitor.sensors \o monitor.deviceSensors

\* C25: the id of a hwmon sample is the interface's directory name, an
\* underscore and the channel number of the file name tempN_input, whatever
\* else the scan reads; no two hwmon samples of a scan share an id.
C25_IdFromInterfaceAndChannel ==
    /\ [][(ChannelTurn /\ monitor'.deviceSensors # monitor.deviceSensors) =>
             LET id  == Latest(monitor'.deviceSensors).ID
                 dir == monitor.hwmonDirs[monitor.i + 1]
             IN  \E n \in 1..Len(id) :
                    /\ id = dir \o <<"_">> \o SubSeq(id, Len(id) - n + 1, Len(id))
                    /\ monitor.tempFiles[monitor.j + 1]
                          = <<"t", "e", "m", "p">> \o SubSeq(id, Len(id) - n + 1, Len(id)) \o <<"_", "i", "n", "p", "u", "t">>]_vars
    /\ [](\A a, b \in 1..Len(HwmonSamples) :
             HwmonSamples[a].ID = HwmonSamples[b].ID => a = b)

\* the first channel of each of two interfaces gave a sample
C25_Witness ==
    /\ monitor.pc = "done"
    /\ Len(monitor.sensors) = 2
    /\ monitor.sensors[1].ID = <<"h", "w", "m", "o", "n", "0", "_", "1">>
    /\ monitor.sensors[2].ID = <<"h", "w", "m", "o", "n", "1", "_", "1">>

\* the interface's name: the name file's contents, "Unknown" without one
NameOf(file) == IF file.err THEN <<"U", "n", "k", "n", "o", "w", "n">> ELSE Trimmed(file)

\* the channel number of the file name tempN_input
NumberOf(base) == SubSeq(base, 5, Len(base) - 6)

\* C26 as stated: a channel without a readable label is named
\* "{deviceName}_{channelNumber}", deviceName being "Unknown" without a name
\* file; a channel with a label is named by the label.
C26_NameIsDeviceAndNumber ==
    [][(ChannelTurn /\ monitor'.deviceSensors # monitor.deviceSensors) =>
          Latest(monitor'.deviceSensors).Name =
             IF monitor'.last.label.err
             THEN NameOf(monitor.nameFile) \o <<"_">> \o NumberOf(monitor'.last.base)
             ELSE Trimmed(monitor'.last.label)]_vars

\* C26, amended: a channel without a readable label is named
\* "{deviceName}_temp{channelNumber}", deviceName being "Unknown" without a
\* name file; a channel with a label is named by the label.
C26_NameIsLabelOrSynthesized ==
    [][(ChannelTurn /\ monitor'.deviceSensors # monitor.deviceSensors) =>
          Latest(monitor'.deviceSensors).Name =
             IF monitor'.last.label.err
             THEN NameOf(monitor.nameFile) \o <<"_", "t", "e", "m", "p">> \o NumberOf(monitor'.last.base)
             ELSE Trimmed(monitor'.last.label)]_vars

\* the unlabelled second channel of an interface without a name file gave a
\* sample
C26_Witness ==
    /\ monitor.pc = "channel"
    /\ monitor.nameFile.err /\ monitor.last.label.err
    /\ monitor.deviceSensors # <<>>
    /\ Latest(monitor.deviceSensors).Name = <<"U", "n", "k", "n", "o", "w", "n", "_", "t", "e", "m", "p", "2">>

\* C27: when the enumeration of the hwmon interfaces fails, GetTemperatures
\* returns an error and no sample; when the enumeration of the thermal zones
\* fails, it returns without error exactly the hwmon samples gathered.
C27_EnumerationFailures ==
    /\ [][(monitor.pc = "idle" /\ monitor'.pc = "done") =>
             monitor'.err /\ monitor'.result = <<>>]_vars
    /\ [][(monitor'.thermalErr /\ ~monitor.thermalErr) =>
             /\ monitor'.pc = "done" /\ ~monitor'.err
             /\ monitor'.result = monitor.sensors]_vars
    /\ [](monitor.err => monitor.pc = "done" /\ monitor.result = <<>>)

\* the enumeration of the thermal zones failed and the scan returned the two
\* hwmon samples
C27_Witness ==
    /\ monitor.pc = "done" /\ monitor.thermalErr /\ ~monitor.err
    /\ Len(monitor.result) = 2

\* the host a batch was sent by
HostOf(rid) == log[rid].batch[1].clientId

\* C28: two batches sent at the same time by two different new hosts that
\* each report the sensor id "hwmon0_1" are both committed, whatever the
\* interleaving of their statements: neither request is answered with an
\* error, and once both are answered the store has one host row per host id,
\* one sensor row for the sensor id, and the reading of each batch.
C28_BothHostsCommit ==
    \A i, j \in DOMAIN log :
       (HostOf(i) # HostOf(j)) =>
          /\ log[i].status # "Internal"
          /\ (log[i].status = "OK" /\ log[j].status = "OK") =>
                /\ DOMAIN db.hosts = {HostOf(i), HostOf(j)}
                /\ DOMAIN db.sensors = {"hwmon0_1"}
                /\ Len(db.readings) = 2

\* the sensor ids of the readings a host has stored
SensorIdsOf(hostId) ==
    {db.readings[k].SensorID :
        k \in {l \in 1..Len(db.readings) : db.readings[l].ClientID = hostId}}

\* the stored readings of a sensor id that a host sent
ReadingsOf(hostId, sensorId) ==
    {k \in 1..Len(db.readings) : /\ db.readings[k].ClientID = hostId
                                 /\ db.readings[k].SensorID = sensorId}

\* C29: GetClient(hostId) lists a sensor entry for every sensor id the host
\* has stored readings of, and only for those; an entry that carries a
\* temperature carries the temperature and the time of the latest stored
\* reading of that sensor id sent by that same host.
C29_SensorsOfTheHost ==
    [][/\ (query.pc = "client_sensors" /\ query' # query /\ query'.status # "Internal") =>
             {query'.ids[k] : k \in 1..Len(query'.ids)}
                = SensorIdsOf(query.req.clientId)
       /\ (/\ query.pc = "client_loop" /\ query' # query
           /\ Latest(query'.out.sensors).lastReading # Nil) =>
             LET entry == Latest(query'.out.sensors)
                 own   == ReadingsOf(query.req.clientId, entry.sensorId)
             IN  \E k \in own :
                    /\ \A l \in own : db.readings[l].CreatedAt <= db.readings[k].CreatedAt
                    /\ entry.currentTemperature = db.readings[k].TemperatureCelsius
                    /\ entry.lastReading = db.readings[k].CreatedAt]_vars

\* C30: every client ListClients returns with onlineOnly set is reported
\* isOnline = true, that is, was last seen less than five minutes before the
\* listing; and every client last seen less than five minutes before is in
\* the listing (when the page holds them all).  A client that stops
\* submitting is therefore absent from the listing five minutes later.
C30_OnlineOnlyListsOnlineClients ==
    [][(query.pc = "list_find" /\ query'.status = "OK" /\ query.req.onlineOnly) =>
          LET listed == query'.out.clients
          IN  /\ \A k \in 1..Len(listed) :
                    /\ listed[k].isOnline
                    /\ clock - listed[k].lastSeen < OnlineWindow
              /\ (query.req.limit = 0 /\ query.req.offset = 0) =>
                    \A id \in DOMAIN db.hosts :
                       clock - db.hosts[id].LastSeen < OnlineWindow =>
                          \E k \in 1..Len(listed) : listed[k].id = id]_vars
====
